---- MODULE Spec2Model ----
(***************************************************************************)
(* Model of the simulated training-job lifecycle of server.js: the jobs    *)
(* table, the jobTimers registry, the interval timers of the event loop    *)
(* and the closure of each runTrainingSimulation call; and of the metric   *)
(* charts of the project page, which polls the server.                     *)
(*                                                                         *)
(* Node runs every request handler and every timer callback to completion  *)
(* on one thread and better-sqlite3 is synchronous, so each handler and    *)
(* each callback is one atomic action.  The only deferred work is the      *)
(* rejection handler of the promise returned by runTrainingSimulation,     *)
(* which runs as a microtask right after the creation handler.             *)
(*                                                                         *)
(* Abstractions: a metric sample keeps its step number only (loss,         *)
(* accuracy and timeMs are random or clock values); projects always exist; *)
(* store faults are injected at the writes of the simulation (lines 300,   *)
(* 323, 330), the ones the specification's PersistenceFailure is about.    *)
(***************************************************************************)
EXTENDS Integers, Sequences, FiniteSets, TLC

\* ---------------------------------------------------------------- bounds
\* Number of jobs created in a run of Spec, where several short jobs run at once.
MaxJobs == 2

\* Number of jobs created in a run of SpecSolo, where jobs of any length run.
MaxSoloJobs == 1

\* Number of jobs created in a run of SpecFair, where timers fire fairly.
MaxFairJobs == 1

\* Number of jobs created in a run of SpecReads, where rows are read back.
MaxReadJobs == 1

\* Number of jobs created in a run of SpecConfig, where configs vary.
MaxConfigJobs == 1

\* Largest number a config field holds in SpecConfig.
MaxField == 6

\* Number of jobs created in a run of SpecLong, where jobs are long.
MaxLongJobs == 1

\* Number of jobs created in a run of SpecClient, where a project page is open.
MaxClientJobs == 2

\* Number of metric fetches of the page that wait for their answer at once.
MaxFetches == 2

\* ------------------------------------------------------ program constants
DefaultEpochs == 5
DefaultStepsPerEpoch == 20
MinTotalSteps == 20
FullProgress == 100
PersistEvery == 2

\* ------------------------------------------------------------ JSON values
\* A config field as it arrives in the request body.  Every value is a
\* record of the same shape so that values of different kinds compare.
Num(n) == [t |-> "number", n |-> n]
Absent == [t |-> "undefined", n |-> 0]
Null == [t |-> "null", n |-> 0]
Text == [t |-> "string", n |-> 0]   \* a string that is not a numeral

\* A JavaScript number that may be NaN.
Fin(n) == [nan |-> FALSE, n |-> n]
NaN == [nan |-> TRUE, n |-> 0]

\* v ?? d
Coalesce(v, d) == IF v.t \in {"undefined", "null"} THEN d ELSE v

\* Number(v) for a value that is not undefined or null
ToNumber(v) == IF v.t = "number" THEN Fin(v.n) ELSE NaN

\* a * b
Times(a, b) == IF a.nan \/ b.nan THEN NaN ELSE Fin(a.n * b.n)

\* Math.max(a, b): NaN if either argument is NaN
MathMax(a, b) == IF a.nan \/ b.nan THEN NaN ELSE Fin(IF a.n >= b.n THEN a.n ELSE b.n)

\* Math.min(a, b)
MathMin(a, b) == IF a.nan \/ b.nan THEN NaN ELSE Fin(IF a.n <= b.n THEN a.n ELSE b.n)

\* The configs a creation request of Spec is tried with: the shortest jobs.
Configs ==
  { [epochs |-> Num(1), stepsPerEpoch |-> Num(1)],
    [epochs |-> Num(0), stepsPerEpoch |-> Absent],
    [epochs |-> Num(-1), stepsPerEpoch |-> Null],
    [epochs |-> Null, stepsPerEpoch |-> Num(4)],
    [epochs |-> Text, stepsPerEpoch |-> Absent],
    [epochs |-> Absent, stepsPerEpoch |-> Text] }

\* The configs of SpecFair: short jobs with an even and an odd step count.
FairConfigs == Configs \cup {[epochs |-> Num(1), stepsPerEpoch |-> Num(21)]}

\* The configs of SpecSolo: the default config, an odd and a minimal step count.
SoloConfigs ==
  { [epochs |-> Absent, stepsPerEpoch |-> Absent],
    [epochs |-> Num(1), stepsPerEpoch |-> Num(21)],
    [epochs |-> Num(1), stepsPerEpoch |-> Num(1)],
    [epochs |-> Text, stepsPerEpoch |-> Num(3)] }

\* The configs of SpecLong: 80, 199 and 200 steps.
LongConfigs ==
  { [epochs |-> Num(4), stepsPerEpoch |-> Absent],
    [epochs |-> Num(1), stepsPerEpoch |-> Num(199)],
    [epochs |-> Num(10), stepsPerEpoch |-> Null] }

\* The configs of SpecConfig: each field missing, null, a string or a number.
FieldValues == {Absent, Null, Text} \cup {Num(n) : n \in -1..MaxField}
AllConfigs == [epochs : FieldValues, stepsPerEpoch : FieldValues]

\* const totalSteps = Math.max(epochs * stepsPerEpoch, 20)
TotalStepsNoFloor(config) ==
  Times(ToNumber(Coalesce(config.epochs, Num(DefaultEpochs))),
        ToNumber(Coalesce(config.stepsPerEpoch, Num(DefaultStepsPerEpoch))))
TotalSteps(config) ==
  LET epochs == ToNumber(Coalesce(config.epochs, Num(DefaultEpochs)))
      stepsPerEpoch == ToNumber(Coalesce(config.stepsPerEpoch, Num(DefaultStepsPerEpoch)))
  IN  MathMax(Times(epochs, stepsPerEpoch), Fin(MinTotalSteps))

\* The nearest integer to num / den for den > 0, a half going up.
RoundDiv(num, den) == (2 * num + den) \div (2 * den)

\* The halves k + 1/2 that (step / totalSteps) * 100 misses in double
\* arithmetic: the quotient (2k + 1) / 200 is rounded to 53 bits and so is its
\* product with 100, which for these k comes out one unit in the last place
\* below k + 1/2 (57.49999999999999 for 23 / 40), and for every other k exactly
\* at k + 1/2.  A quotient that is not a half is at least 1 / (2 * den) away
\* from one, far more than the rounding error.
HalfLost == {14, 28, 56, 57}

\* Math.round(x) for the double x = (step / totalSteps) * 100, with
\* num = 100 * step and den = totalSteps: the nearest integer, a half going up
MathRoundDown(num, den) == num \div den
MathRound(num, den) ==
  IF 2 * (num % den) = den /\ (num \div den) \in HalfLost
  THEN num \div den
  ELSE RoundDiv(num, den)

\* const progress = Math.min(Math.round((step / totalSteps) * 100), 100)
Progress(step, totalSteps) ==
  IF totalSteps.nan THEN NaN
  ELSE MathMin(Fin(MathRound(step * FullProgress, totalSteps.n)), Fin(FullProgress))

\* step % 2 === 0 || progress === 100
FlushDueEvenOnly(step, progress) == step % PersistEvery = 0
FlushDueThird(step, progress) ==
  (step % (PersistEvery + 1) = 0) \/ (~progress.nan /\ progress.n = FullProgress)
FlushDue(step, progress) ==
  (step % PersistEvery = 0) \/ (~progress.nan /\ progress.n = FullProgress)

\* step >= totalSteps (false when totalSteps is NaN)
IsFinalEarly(step, totalSteps) == ~totalSteps.nan /\ step >= totalSteps.n - 1
IsFinalLate(step, totalSteps) == ~totalSteps.nan /\ step > totalSteps.n
IsFinal(step, totalSteps) == ~totalSteps.nan /\ step >= totalSteps.n

\* ------------------------------------------------------------------ state
VARIABLES
  jobs,        \* the jobs table: row id is the index, ids are never reused
  jobTimers,   \* keys of the jobTimers map
  intervals,   \* jobs whose setInterval timer is live in the event loop
  sim,         \* closure of each runTrainingSimulation call that got past line 305
  pending,     \* rejected promises whose .catch handler has not run yet
  uncaught,    \* the exception that ended the process, if any
  resp,        \* response sent by the last step, if it was a request
  firstCancel, \* per job, what the first successful cancel request read and returned
  activeJobId, \* state.activeJobId of the project page, 0 for null
  fetches,     \* job ids of the GET /api/jobs/:id fetches the page waits for
  charts       \* the job whose metrics the charts were last drawn from, 0 for none

\* the state of the project page in the browser
client == <<activeJobId, fetches, charts>>

\* the state of the server process and its database
server == <<jobs, jobTimers, intervals, sim, pending, uncaught, firstCancel>>

vars == <<jobs, jobTimers, intervals, sim, pending, uncaught, resp, firstCancel,
          activeJobId, fetches, charts>>

\* Optional values are sequences of length at most one.
None == <<>>
Some(x) == <<x>>

Terminal == {"completed", "failed", "canceled"}
Statuses == {"queued", "running"} \cup Terminal

\* message of the error a failing store write throws
StoreError == "SqliteError"

JobIds == DOMAIN jobs

\* INSERT INTO jobs (...) VALUES (?, ?, ?, 'queued', 0, '[]')
QueuedRow == [status |-> "queued", progress |-> 0, metrics |-> <<>>, error |-> ""]

\* the process is up and no microtask is waiting: a request or a timer may run
Idle == uncaught = None /\ pending = None

Init ==
  /\ jobs = <<>>
  /\ jobTimers = {}
  /\ intervals = {}
  /\ sim = <<>>
  /\ pending = None
  /\ uncaught = None
  /\ resp = None
  /\ firstCancel = <<>>
  /\ activeJobId = 0
  /\ fetches = <<>>
  /\ charts = 0

\* res.status(code).json(body): read is the row the handler looked up first,
\* config the config of the request body of a creation request
Response(op, id, code, read, body, config) ==
  [op |-> op, id |-> id, code |-> code, read |-> read, body |-> body, config |-> config]

\* ------------------------------------------------- POST /api/projects/:id/jobs
\* db.prepare('UPDATE jobs SET status = ? WHERE id = ?').run('running', jobId)
SetRunningSkipped(row) == row
SetRunning(row) == [row EXCEPT !.status = "running"]

\* let step = 0; let metrics = []
NewClosure(config) == [totalSteps |-> TotalSteps(config), step |-> 0, metrics |-> <<>>]

\* The creation handler with the synchronous body of runTrainingSimulation.
\* fault: the UPDATE of line 300 throws, which rejects the returned promise.
\* maxJobs: the number of jobs the run may create.
CreateJob(config, fault, maxJobs) ==
  LET jobId == Len(jobs) + 1
      row == IF fault THEN QueuedRow ELSE SetRunning(QueuedRow)
  IN  /\ Idle
      /\ jobId <= maxJobs
      /\ jobs' = Append(jobs, row)
      /\ firstCancel' = Append(firstCancel, None)
      /\ IF fault
         THEN /\ sim' = Append(sim, None)
              /\ pending' = Some([job |-> jobId, message |-> StoreError])
              /\ UNCHANGED <<jobTimers, intervals>>
         ELSE /\ sim' = Append(sim, Some(NewClosure(config)))
              /\ intervals' = intervals \cup {jobId}
              /\ jobTimers' = jobTimers \cup {jobId}
              /\ pending' = None
      /\ resp' = Some(Response("create", jobId, 201, None, Some(row), Some(config)))
      /\ UNCHANGED <<uncaught, client>>

\* db.prepare('UPDATE jobs SET status = ?, error = ? WHERE id = ?').run('failed', ...)
SetFailedErrorOnly(row, message) == [row EXCEPT !.error = message]
SetFailed(row, message) == [row EXCEPT !.status = "failed", !.error = message]

\* The .catch handler of lines 265-268, run as a microtask.
StartFailed ==
  /\ uncaught = None
  /\ pending # None
  /\ LET p == pending[1]
     IN  jobs' = [jobs EXCEPT ![p.job] = SetFailed(jobs[p.job], p.message)]
  /\ pending' = None
  /\ resp' = None
  /\ UNCHANGED <<jobTimers, intervals, sim, uncaught, firstCancel, client>>

\* ------------------------------------------------ POST /api/jobs/:jobId/cancel
\* if (!job) return res.status(404).json({ error: 'Job not found' })
NotFoundOk(jobId) == Response("cancel", jobId, 200, None, None, None)
NotFound(jobId) == Response("cancel", jobId, 404, None, None, None)

\* .run('canceled', job.progress, jobId)
CancelRowReset(row, job) == [row EXCEPT !.status = "canceled", !.progress = 0]
CancelRow(row, job) == [row EXCEPT !.status = "canceled", !.progress = job.progress]

\* if (timer) { clearInterval(timer.intervalId); jobTimers.delete(jobId); }
IntervalsAfterCancelKept(jobId) == intervals
IntervalsAfterCancel(jobId) == IF jobId \in jobTimers THEN intervals \ {jobId} ELSE intervals
TimersAfterCancel(jobId) == jobTimers \ {jobId}

Cancel(jobId) ==
  /\ Idle
  /\ IF jobId \notin JobIds
     THEN /\ resp' = Some(NotFound(jobId))
          /\ UNCHANGED <<jobs, jobTimers, intervals, firstCancel>>
     ELSE LET job == jobs[jobId]
              updated == CancelRow(jobs[jobId], job)
          IN  /\ intervals' = IntervalsAfterCancel(jobId)
              /\ jobTimers' = TimersAfterCancel(jobId)
              /\ jobs' = [jobs EXCEPT ![jobId] = updated]
              /\ resp' = Some(Response("cancel", jobId, 200, Some(job), Some(updated), None))
              /\ firstCancel' =
                   IF firstCancel[jobId] = None
                   THEN [firstCancel EXCEPT ![jobId] = Some([read |-> job, body |-> updated])]
                   ELSE firstCancel
  /\ UNCHANGED <<sim, pending, uncaught, client>>

\* ------------------------------------------------------- GET /api/jobs/:jobId
GetJob(jobId) ==
  /\ Idle
  /\ resp' = IF jobId \notin JobIds
             THEN Some(Response("get", jobId, 404, None, None, None))
             ELSE Some(Response("get", jobId, 200, Some(jobs[jobId]), Some(jobs[jobId]), None))
  /\ UNCHANGED <<jobs, jobTimers, intervals, sim, pending, uncaught, firstCancel, client>>

\* ------------------------------------------------------ runTrainingSimulation
\* metrics.push({ step, loss, accuracy, timeMs })
SampleFromZero(step) == [step |-> step - 1]
Sample(step) == [step |-> step]

\* .run(progress, toJson(metrics), jobId)
FlushLatest(row, progress, metrics) ==
  [row EXCEPT !.progress = progress.n, !.metrics = <<metrics[Len(metrics)]>>]
Flush(row, progress, metrics) == [row EXCEPT !.progress = progress.n, !.metrics = metrics]

\* .run('completed', 100, toJson(metrics), jobId)
Complete(row, metrics) ==
  [row EXCEPT !.status = "completed", !.progress = FullProgress, !.metrics = metrics]

\* SQLite binds NaN as NULL, which the NOT NULL column progress rejects
WriteRejected(progress) == progress.nan

\* An uncaught exception in a timer callback ends the process: its timers
\* and its memory (registry, closures) are gone, the database file stays.
Crash(jobId, step, rows) ==
  /\ uncaught' = Some([job |-> jobId, step |-> step, message |-> StoreError])
  /\ jobs' = rows
  /\ jobTimers' = {}
  /\ intervals' = {}
  /\ sim' = [j \in DOMAIN sim |-> None]
  /\ pending' = None
  /\ resp' = None
  /\ UNCHANGED <<firstCancel, client>>

\* One firing of the interval callback of lines 312-333.
\* fault: 0 for none, 1 if the UPDATE of line 323 throws, 2 if that of line 330 does.
Tick(jobId, fault) ==
  /\ Idle
  /\ jobId \in intervals
  /\ LET c == sim[jobId][1]
         step == c.step + 1
         progress == Progress(step, c.totalSteps)
         metrics == Append(c.metrics, Sample(step))
         flush == FlushDue(step, progress)
         final == IsFinal(step, c.totalSteps)
         flushed == IF flush
                    THEN [jobs EXCEPT ![jobId] = Flush(jobs[jobId], progress, metrics)]
                    ELSE jobs
     IN  /\ fault = 1 => flush /\ ~WriteRejected(progress)
         /\ fault = 2 => final
         /\ IF flush /\ (fault = 1 \/ WriteRejected(progress))
            THEN Crash(jobId, step, jobs)
            ELSE IF final /\ fault = 2
            THEN Crash(jobId, step, flushed)
            ELSE /\ sim' = [sim EXCEPT ![jobId] = Some([c EXCEPT !.step = step, !.metrics = metrics])]
                 /\ intervals' = IF final THEN intervals \ {jobId} ELSE intervals
                 /\ jobTimers' = IF final THEN jobTimers \ {jobId} ELSE jobTimers
                 /\ jobs' = IF final
                            THEN [flushed EXCEPT ![jobId] = Complete(flushed[jobId], metrics)]
                            ELSE flushed
                 /\ resp' = None
                 /\ UNCHANGED <<pending, uncaught, firstCancel, client>>

\* ------------------------------------------------------------ the project page
\* The page runs its handlers and the continuations of its awaits one at a
\* time; between the start of a fetch and its continuation any other handler
\* of the page may run, and answers arrive in any order.

\* the sequence s without its element i
Without(s, i) == SubSeq(s, 1, i - 1) \o SubSeq(s, i + 1, Len(s))

\* The continuation of loadJobs after its fetch: with no active job it picks
\* the first running job of the list, else the first job.  The list is ordered
\* by a creation time of one second resolution, so any of them can be first.
LoadJobs ==
  /\ uncaught = None
  /\ activeJobId = 0
  /\ jobs # <<>>
  /\ LET running == {j \in JobIds : jobs[j].status = "running"}
     IN  activeJobId' \in IF running # {} THEN running ELSE JobIds
  /\ resp' = None
  /\ UNCHANGED <<server, fetches, charts>>

\* refreshActiveJobMetrics fired by the 800 ms poller, up to its await:
\* const id = state.activeJobId; without one the charts are cleared, else
\* GET /api/jobs/:id is sent.
PollMetrics ==
  /\ IF activeJobId = 0
     THEN charts' = 0 /\ UNCHANGED fetches
     ELSE /\ Len(fetches) < MaxFetches
          /\ fetches' = Append(fetches, activeJobId)
          /\ UNCHANGED charts
  /\ resp' = None
  /\ UNCHANGED <<server, activeJobId>>

\* A click on the View button of job id, up to the await inside
\* refreshActiveJobMetrics.  The button is enabled in a list that was
\* rendered after the job stored its first metrics.
ViewClick(id) ==
  /\ id \in JobIds /\ jobs[id].metrics # <<>>
  /\ Len(fetches) < MaxFetches
  /\ activeJobId' = id
  /\ fetches' = Append(fetches, id)
  /\ resp' = None
  /\ UNCHANGED <<server, charts>>

\* The continuation of refreshActiveJobMetrics after its await: the answer to
\* fetch i has arrived, or the fetch has failed; drawLoss and drawAcc draw the
\* fetched or the cached metrics of the job the fetch was started for.
FetchSettles(i) ==
  /\ i \in 1..Len(fetches)
  /\ charts' = fetches[i]
  /\ fetches' = Without(fetches, i)
  /\ resp' = None
  /\ UNCHANGED <<server, activeJobId>>

\* ---------------------------------------------------------------- behaviours
\* The steps of a run that creates at most maxJobs jobs, with configs of the
\* given set.
Step(configs, maxJobs) ==
  \/ \E config \in configs, fault \in BOOLEAN : CreateJob(config, fault, maxJobs)
  \/ StartFailed
  \/ \E jobId \in 1..(maxJobs + 1) : Cancel(jobId)
  \/ \E jobId \in 1..maxJobs, fault \in 0..2 : Tick(jobId, fault)

Next == Step(Configs, MaxJobs)

Spec == Init /\ [][Next]_vars

NextSolo == Step(SoloConfigs, MaxSoloJobs)

SpecSolo == Init /\ [][NextSolo]_vars

NextFair == Step(FairConfigs, MaxFairJobs)

\* Runs in which rows are read back and no tick write is made to fail.
NextReads ==
  \/ \E config \in FairConfigs, fault \in BOOLEAN : CreateJob(config, fault, MaxReadJobs)
  \/ StartFailed
  \/ \E jobId \in 1..(MaxReadJobs + 1) : Cancel(jobId)
  \/ \E jobId \in 1..MaxReadJobs : Tick(jobId, 0)
  \/ \E jobId \in 1..(MaxReadJobs + 1) : GetJob(jobId)

SpecReads == Init /\ [][NextReads]_vars

\* Runs that start jobs with every config and stop before the first tick.
NextConfig ==
  \/ \E config \in AllConfigs, fault \in BOOLEAN : CreateJob(config, fault, MaxConfigJobs)
  \/ StartFailed
  \/ \E jobId \in 1..(MaxConfigJobs + 1) : Cancel(jobId)

SpecConfig == Init /\ [][NextConfig]_vars

\* Runs of long jobs that no cancel request interrupts.
NextLong ==
  \/ \E config \in LongConfigs, fault \in BOOLEAN : CreateJob(config, fault, MaxLongJobs)
  \/ StartFailed
  \/ \E jobId \in 1..MaxLongJobs, fault \in 0..2 : Tick(jobId, fault)

SpecLong == Init /\ [][NextLong]_vars

\* Runs of the server with one project page open.
NextClient ==
  \/ \E config \in Configs : CreateJob(config, FALSE, MaxClientJobs)
  \/ \E jobId \in 1..MaxClientJobs : Tick(jobId, 0)
  \/ LoadJobs
  \/ PollMetrics
  \/ \E id \in 1..MaxClientJobs : ViewClick(id)
  \/ \E i \in 1..MaxFetches : FetchSettles(i)

SpecClient == Init /\ [][NextClient]_vars

TypeOK ==
  /\ \A j \in JobIds : jobs[j].status \in Statuses /\ jobs[j].progress \in 0..FullProgress
  /\ jobTimers \subseteq JobIds
  /\ intervals \subseteq JobIds
  /\ DOMAIN sim = JobIds /\ DOMAIN firstCancel = JobIds
  /\ Len(pending) <= 1 /\ Len(uncaught) <= 1 /\ Len(resp) <= 1
  /\ activeJobId \in {0} \cup JobIds /\ charts \in {0} \cup JobIds
  /\ \A i \in 1..Len(fetches) : fetches[i] \in JobIds

\* setInterval keeps firing while the process is up, and the microtask queue
\* is drained after every handler.
Fairness ==
  /\ \A jobId \in 1..MaxFairJobs : WF_vars(Tick(jobId, 0))
  /\ WF_vars(StartFailed)

SpecFair == Init /\ [][NextFair]_vars /\ Fairness

\* -------------------------------------------------------------------- claims
\* the last step was a cancel request that found job j
CancelHandled(j) == resp # None /\ resp[1].op = "cancel" /\ resp[1].id = j /\ resp[1].code = 200

\* the first cancel request for job j found it running
CanceledWhileRunning(j) == firstCancel[j] # None /\ firstCancel[j][1].read.status = "running"

\* what a reader of the job store sees of a row
Visible(row) == <<row.status, row.progress, Len(row.metrics)>>

\* C1: once a job's stored status is terminal, no later step changes its stored
\* status, progress or metrics; a cancel of a completed job leaves it completed.
C1_TerminalFrozen ==
  [][\A j \in DOMAIN jobs :
       jobs[j].status \in Terminal =>
         /\ Visible(jobs'[j]) = Visible(jobs[j])
         /\ jobs'[j].metrics = jobs[j].metrics]_vars

\* C2: after a cancel request for a running job has been handled the stored
\* status is canceled, its timer never fires again (it is not live and the step
\* counter of its closure stays put) and no later write replaces canceled.
C2_CancelWins ==
  [][\A j \in DOMAIN jobs :
       /\ (jobs[j].status = "running" /\ CancelHandled(j)') =>
            (jobs'[j].status = "canceled" /\ j \notin intervals' /\ j \notin jobTimers')
       /\ (jobs[j].status = "canceled" /\ CanceledWhileRunning(j)) =>
            /\ jobs'[j] = jobs[j]
            /\ j \notin intervals'
            /\ (sim'[j] # None => sim'[j] = sim[j])]_vars

C2_Witness ==
  \E j \in DOMAIN jobs :
    /\ CanceledWhileRunning(j) /\ jobs[j].status = "canceled"
    /\ sim[j] # None /\ sim[j][1].step > 0
    /\ ~CancelHandled(j)
    /\ \E k \in DOMAIN jobs : k # j /\ sim[k] # None /\ sim[k][1].step > sim[j][1].step

\* C3: canceling a running job leaves stored progress and metrics as they were
\* and sets only the status; a sample held in memory only is never written; a
\* cancel before the first tick gives canceled, progress 0 and no metrics.
C3_CancelFreezes ==
  \A j \in DOMAIN jobs :
    CanceledWhileRunning(j) =>
      LET first == firstCancel[j][1]
      IN  /\ first.body = [first.read EXCEPT !.status = "canceled"]
          /\ jobs[j] = first.body
          /\ sim[j] # None =>
               /\ Len(jobs[j].metrics) <= sim[j][1].step
               /\ sim[j][1].step = 0 => (jobs[j].progress = 0 /\ jobs[j].metrics = <<>>)

C3_Witness ==
  \E j, k \in DOMAIN jobs :
    /\ CanceledWhileRunning(j) /\ sim[j] # None
    /\ sim[j][1].step = 3 /\ Len(jobs[j].metrics) = 2
    /\ CanceledWhileRunning(k) /\ sim[k] # None /\ sim[k][1].step = 0

\* C4: a second cancel request for a job that was running at the first one
\* returns the record the first one returned, with no error.
C4_CancelIdempotent ==
  \A j \in DOMAIN jobs :
    (CancelHandled(j) /\ CanceledWhileRunning(j)) =>
      /\ resp[1].body = Some(firstCancel[j][1].body)
      /\ resp[1].body[1].status = "canceled"

C4_Witness ==
  \E j \in DOMAIN jobs :
    /\ CancelHandled(j) /\ CanceledWhileRunning(j)
    /\ resp[1].read[1].status = "canceled"
    /\ resp[1].body[1].progress > 0

\* C5: a cancel request for an id that is not in the job store answers NotFound
\* and changes neither the job store nor the registry nor any timer.
C5_UnknownCancel ==
  [][(resp' # None /\ resp'[1].op = "cancel" /\ resp'[1].id \notin DOMAIN jobs) =>
       /\ resp'[1].code = 404 /\ resp'[1].body = None
       /\ UNCHANGED <<jobs, jobTimers, intervals, sim, pending, uncaught>>]_vars

C5_Witness ==
  /\ resp # None /\ resp[1].op = "cancel" /\ resp[1].code = 404
  /\ resp[1].id \notin DOMAIN jobs
  /\ intervals # {}

C7_CompletesOnTotal ==
  /\ \A j \in 1..MaxFairJobs :
       (j \in DOMAIN jobs /\ jobs[j].status = "running")
         ~> (uncaught # None \/
             (j \in DOMAIN jobs /\ jobs[j].status \in {"completed", "canceled"}))
  /\ [][\A j \in DOMAIN jobs :
          (jobs[j].status = "running" /\ jobs'[j].status = "completed") =>
            /\ sim'[j][1].step = sim'[j][1].totalSteps.n
            /\ sim'[j][1].step = sim[j][1].step + 1]_vars
  /\ [](\A j \in DOMAIN jobs :
          (jobs[j].status = "running" /\ sim[j] # None /\ ~sim[j][1].totalSteps.nan) =>
            sim[j][1].step < sim[j][1].totalSteps.n)

C7_Witness ==
  \E j \in DOMAIN jobs :
    /\ jobs[j].status = "completed" /\ firstCancel[j] = None
    /\ sim[j] # None /\ sim[j][1].step = 21

\* C8: a store write that fails during a tick leaves the job failed with the
\* error message stored, and no further tick of it occurs.
C8_TickFaultFails ==
  uncaught # None =>
    /\ jobs[uncaught[1].job].status = "failed"
    /\ jobs[uncaught[1].job].error = uncaught[1].message
    /\ uncaught[1].job \notin intervals

\* C9: a failure inside the start operation leaves the job failed with an error
\* message and without timer; once the creation request and its failure handler
\* have run no job is queued.
C9_StartFailure ==
  \A j \in DOMAIN jobs :
    /\ (pending # None /\ pending[1].job = j) =>
         (j \notin intervals /\ j \notin jobTimers /\ sim[j] = None)
    /\ (pending = None \/ pending[1].job # j) => jobs[j].status # "queued"
    /\ jobs[j].status = "failed" =>
         (jobs[j].error = StoreError /\ j \notin intervals /\ j \notin jobTimers)

C9_Witness ==
  \E j \in DOMAIN jobs :
    jobs[j].status = "failed" /\ jobs[j].error # "" /\ pending = None /\ intervals # {}

\* C10: a fault inside one job's tick leaves every other running job with its
\* timer and its registry entry.
C10_FaultIsolated ==
  uncaught # None =>
    \A j \in DOMAIN jobs :
      (j # uncaught[1].job /\ jobs[j].status = "running") =>
        (j \in intervals /\ j \in jobTimers)

\* C11: every change of a stored status is queued->running, running->completed,
\* running->canceled, running->failed or queued->failed.
AllowedTransitions ==
  { <<"queued", "running">>, <<"running", "completed">>, <<"running", "canceled">>,
    <<"running", "failed">>, <<"queued", "failed">> }

C11_Transitions ==
  [][\A j \in DOMAIN jobs :
       jobs'[j].status # jobs[j].status =>
         <<jobs[j].status, jobs'[j].status>> \in AllowedTransitions]_vars

\* C12: between handlers and callbacks a job has a live timer if and only if
\* its stored status is running.
C12_TimerIffRunning ==
  pending = None =>
    \A j \in DOMAIN jobs : (j \in intervals) <=> (jobs[j].status = "running")

\* C13: the stored metrics of every job are numbered 1, 2, 3, ... in order.
C13_Contiguous ==
  \A j \in DOMAIN jobs :
    /\ \A i \in 1..Len(jobs[j].metrics) : jobs[j].metrics[i].step = i
    /\ sim[j] # None =>
         \A i \in 1..Len(sim[j][1].metrics) : sim[j][1].metrics[i].step = i

C13_Witness ==
  \E j \in DOMAIN jobs :
    /\ Len(jobs[j].metrics) = 6 /\ jobs[j].status = "canceled"
    /\ sim[j] # None /\ Len(sim[j][1].metrics) = 7

\* C14: the stored progress of a job never decreases and lies in 0..100.
C14_ProgressMonotone ==
  /\ [](\A j \in DOMAIN jobs : jobs[j].progress \in 0..100)
  /\ [][\A j \in DOMAIN jobs : jobs'[j].progress >= jobs[j].progress]_vars

C14_Witness ==
  \E j \in DOMAIN jobs :
    /\ jobs[j].status = "canceled" /\ jobs[j].progress = 57
    /\ CancelHandled(j) /\ resp[1].read[1].status = "canceled"

\* s is t or t with samples added at the end
IsPrefix(s, t) == Len(s) <= Len(t) /\ SubSeq(t, 1, Len(s)) = s

\* C15: every write of a job's metrics stores a list that extends the list
\* stored before, so no reader sees the list shrink.
C15_AppendOnly ==
  [][\A j \in DOMAIN jobs : IsPrefix(jobs[j].metrics, jobs'[j].metrics)]_vars

C15_Witness ==
  \E j \in DOMAIN jobs :
    jobs[j].status = "running" /\ Len(jobs[j].metrics) = 22 /\ j \in intervals

Started(j) ==
  /\ resp # None /\ resp[1].op = "create" /\ resp[1].id = j
  /\ sim[j] # None

\* a field that is missing or a number, and the number it counts as
Plain(v) == v.t \in {"undefined", "number"}
Counted(v, default) == IF v.t = "number" THEN v.n ELSE default

\* C17: totalSteps is max(epochs * stepsPerEpoch, 20), a missing epochs counting
\* as 5 and a missing stepsPerEpoch as 20; it is never below 20.
C17_TotalSteps ==
  \A j \in DOMAIN jobs :
    (Started(j) /\ Plain(resp[1].config[1].epochs)
                /\ Plain(resp[1].config[1].stepsPerEpoch)) =>
      LET product == Counted(resp[1].config[1].epochs, 5)
                       * Counted(resp[1].config[1].stepsPerEpoch, 20)
          total == sim[j][1].totalSteps
      IN  /\ ~total.nan
          /\ total.n = IF product > 20 THEN product ELSE 20
          /\ total.n >= 20

C17_Witness ==
  \E j \in DOMAIN jobs :
    /\ Started(j)
    /\ resp[1].config[1] = [epochs |-> Absent, stepsPerEpoch |-> Num(6)]
    /\ sim[j][1].totalSteps = Fin(30)

\* C18: whatever the config, once the timer of a started job that was never
\* canceled has stopped, the job is stored in a terminal state and has ticked
\* at least 20 times.
C18_BoundedTicks ==
  \A j \in DOMAIN jobs :
    (jobs[j].status \notin {"queued", "failed"} /\ firstCancel[j] = None
       /\ j \notin intervals) =>
      (jobs[j].status \in Terminal /\ Len(jobs[j].metrics) >= 20)

\* C19: a config field that is not numeric counts like a missing one: the
\* default enters the totalSteps computation.
C19_TextDefaults ==
  \A j \in DOMAIN jobs :
    Started(j) =>
      LET config == resp[1].config[1]
          epochs == IF config.epochs.t = "string" THEN Absent ELSE config.epochs
          stepsPerEpoch == IF config.stepsPerEpoch.t = "string" THEN Absent
                           ELSE config.stepsPerEpoch
      IN  sim[j][1].totalSteps =
            TotalSteps([epochs |-> epochs, stepsPerEpoch |-> stepsPerEpoch])

\* C20: every read of a started job before its first tick (and before any
\* cancel) returns running, progress 0 and no metrics; no timer is live for
\* a job stored as queued.
C20_RunningBeforeFirstTick ==
  /\ \A j \in DOMAIN jobs :
       (sim[j] # None /\ sim[j][1].step = 0 /\ firstCancel[j] = None) =>
         /\ jobs[j] = [QueuedRow EXCEPT !.status = "running"]
         /\ (resp # None /\ resp[1].op = "get" /\ resp[1].id = j) =>
              resp[1].body = Some([QueuedRow EXCEPT !.status = "running"])
  /\ \A j \in intervals : jobs[j].status # "queued"

C20_Witness ==
  \E j \in DOMAIN jobs :
    /\ resp # None /\ resp[1].op = "get" /\ resp[1].id = j /\ resp[1].code = 200
    /\ sim[j] # None /\ sim[j][1].step = 0 /\ firstCancel[j] = None
    /\ j \in intervals

\* the step is a tick of job j that ran to its end and wrote its buffer
TickWrote(j) ==
  /\ sim[j] # None /\ sim'[j] # None
  /\ sim'[j][1].step = sim[j][1].step + 1
  /\ Len(jobs'[j].metrics) = sim'[j][1].step

Abs(n) == IF n < 0 THEN -n ELSE n

\* C21 as stated: the progress a tick writes for step s of a job with total
\* step count T is s/T*100 rounded down, capped at 100.
C21_RoundedDown ==
  [][\A j \in DOMAIN jobs :
       TickWrote(j) =>
         LET s == sim'[j][1].step
             T == sim'[j][1].totalSteps.n
             down == (100 * s) \div T
         IN  jobs'[j].progress = IF down > 100 THEN 100 ELSE down]_vars

\* C21 as amended: the progress a tick writes for step s of a job with total
\* step count T is an integer nearest to s/T*100 (at most one half away from
\* it) and at most 100.
C21_Nearest ==
  [][\A j \in DOMAIN jobs :
       TickWrote(j) =>
         LET s == sim'[j][1].step
             T == sim'[j][1].totalSteps.n
             p == jobs'[j].progress
         IN  p <= 100 /\ 2 * Abs(p * T - 100 * s) <= T]_vars

C21_Witness ==
  \E j \in DOMAIN jobs :
    /\ jobs[j].status = "running" /\ sim[j] # None
    /\ sim[j][1].totalSteps = Fin(21) /\ sim[j][1].step = 2
    /\ Len(jobs[j].metrics) = 2 /\ jobs[j].progress = 10

\* C22: the progress computed on tick s of a job with total step count T is
\* min(round(s/T*100), 100), a half rounding up; it depends on s and T only.
C22_RoundHalfUp ==
  [][\A j \in DOMAIN jobs :
       TickWrote(j) =>
         LET s == sim'[j][1].step
             T == sim'[j][1].totalSteps.n
             halfUp == RoundDiv(100 * s, T)
         IN  jobs'[j].progress = IF halfUp < 100 THEN halfUp ELSE 100]_vars

\* the step is a tick of job j that ran to its end
TickRan(j) ==
  /\ sim[j] # None /\ sim'[j] # None
  /\ sim'[j][1].step = sim[j][1].step + 1

\* the step is a tick of job j in which a write threw
TickThrew(j) ==
  /\ uncaught = None /\ uncaught' # None
  /\ uncaught'[1].job = j /\ uncaught'[1].step = sim[j][1].step + 1

\* the step wrote the whole buffer of job j to its stored record
WroteBuffer(j) ==
  /\ jobs'[j].metrics = sim'[j][1].metrics
  /\ jobs'[j].metrics # jobs[j].metrics
  /\ jobs'[j].progress >= jobs[j].progress

\* C23 as stated: tick s writes progress and metrics to the job store if and
\* only if s is even or s >= totalSteps; every other tick leaves the stored
\* record unchanged.
C23_EvenOrFinal ==
  [][\A j \in DOMAIN jobs :
       TickRan(j) =>
         LET s == sim'[j][1].step
             T == sim'[j][1].totalSteps
         IN  IF s % 2 = 0 \/ (~T.nan /\ s >= T.n)
             THEN WroteBuffer(j)
             ELSE jobs'[j] = jobs[j]]_vars

\* C23 as amended: tick s writes progress and metrics to the job store if and
\* only if s is even or the progress computed for s is 100 (s/T*100 is 99.5
\* or more), which includes the final tick; every other tick leaves the stored
\* record unchanged and issues no write that could throw.
C23_EvenOrFull ==
  [][\A j \in DOMAIN jobs :
       /\ TickRan(j) =>
            LET s == sim'[j][1].step
                T == sim'[j][1].totalSteps
            IN  IF s % 2 = 0 \/ (~T.nan /\ 200 * s >= 199 * T.n)
                THEN WroteBuffer(j)
                ELSE jobs'[j] = jobs[j]
       /\ TickThrew(j) =>
            LET s == uncaught'[1].step
                T == sim[j][1].totalSteps
            IN  s % 2 = 0 \/ (~T.nan /\ 200 * s >= 199 * T.n)]_vars

C23_Witness ==
  \E j \in DOMAIN jobs :
    /\ jobs[j].status = "running" /\ sim[j] # None
    /\ sim[j][1].totalSteps = Fin(200) /\ sim[j][1].step = 199
    /\ Len(jobs[j].metrics) = 199

\* C24: while a job is running at most one sample held in memory is missing
\* from its stored metrics, and a completed job has its whole buffer stored,
\* also when totalSteps is odd.
C24_AtMostOneBehind ==
  \A j \in DOMAIN jobs :
    sim[j] # None =>
      /\ jobs[j].status = "running" =>
           /\ Len(sim[j][1].metrics) - Len(jobs[j].metrics) \in {0, 1}
           /\ IsPrefix(jobs[j].metrics, sim[j][1].metrics)
      /\ jobs[j].status = "completed" => jobs[j].metrics = sim[j][1].metrics

C24_Witness ==
  \E j \in DOMAIN jobs :
    /\ jobs[j].status = "completed" /\ sim[j] # None
    /\ sim[j][1].totalSteps = Fin(21) /\ Len(jobs[j].metrics) = 21

\* C25: in every state between handlers the registry holds an entry for a job
\* exactly when the interval timer of that job is live; entries are inserted
\* with the start of the timer and removed with its stop.
C25_EntryIffTimer ==
  /\ jobTimers = intervals
  /\ \A j \in DOMAIN jobs :
       /\ (resp # None /\ resp[1].op = "create" /\ resp[1].id = j /\ pending = None) =>
            (j \in jobTimers /\ j \in intervals)
       /\ jobs[j].status \in Terminal => (j \notin jobTimers /\ j \notin intervals)

C25_Witness ==
  \E j, k \in DOMAIN jobs :
    /\ j \in jobTimers /\ j \in intervals /\ sim[j][1].step > 0
    /\ jobs[k].status = "completed" /\ k \notin jobTimers

\* the step is a tick of job a, whether it ran to its end or threw
Ticked(a) ==
  /\ a \in intervals
  /\ \/ sim'[a] # None /\ sim'[a][1].step = sim[a][1].step + 1
     \/ uncaught = None /\ uncaught' # None /\ uncaught'[1].job = a

\* C26: a tick, completion or cancel of job a leaves the stored record, the
\* step counter and metrics buffer and the registry entry and timer of every
\* other job b as they were.
C26_Independent ==
  [][\A a, b \in DOMAIN jobs :
       (a # b /\ (Ticked(a) \/ CancelHandled(a)')) =>
         /\ jobs'[b] = jobs[b]
         /\ sim'[b] = sim[b]
         /\ (b \in jobTimers') = (b \in jobTimers)
         /\ (b \in intervals') = (b \in intervals)]_vars

\* C27: a job stored as running has stored progress below 100, whatever its
\* total step count: progress 100 is stored only with the status completed.
C27_RunningBelowFull ==
  \A j \in DOMAIN jobs : jobs[j].status = "running" => jobs[j].progress < 100

\* C28: the stored progress of a job with total step count T is
\* min(round(L/T*100), 100), a half rounding up, where L is the number of
\* stored samples: initially, after every tick, completion and cancel.
C28_ProgressOfStored ==
  \A j \in DOMAIN jobs :
    (sim[j] # None /\ ~sim[j][1].totalSteps.nan) =>
      LET L == Len(jobs[j].metrics)
          halfUp == RoundDiv(100 * L, sim[j][1].totalSteps.n)
      IN  jobs[j].progress = IF halfUp < 100 THEN halfUp ELSE 100

\* C29: when the start succeeds the record a creation request returns is
\* running with progress 0 and no metrics, the timer is registered before the
\* handler ends, and no request reads a started job as queued.
C29_CreatedRunning ==
  \A j \in DOMAIN jobs :
    /\ Started(j) =>
         /\ resp[1].code = 201
         /\ resp[1].body = Some([QueuedRow EXCEPT !.status = "running"])
         /\ j \in jobTimers /\ j \in intervals
    /\ (resp # None /\ resp[1].id = j /\ sim[j] # None) =>
         /\ resp[1].body[1].status # "queued"
         /\ resp[1].read # None => resp[1].read[1].status # "queued"

C29_Witness ==
  \E j \in DOMAIN jobs :
    /\ Started(j) /\ resp[1].body[1].status = "running"
    /\ sim[j][1].step = 0 /\ j \in jobTimers

\* C30: the charts are only ever drawn from the metrics of the active job: no
\* answer to a metric fetch, whenever it arrives, draws another job's metrics.
C30_ChartsFollowActive ==
  [][Len(fetches') < Len(fetches) => charts' = activeJobId']_vars

====
